---- MODULE Spec2Model ----
(***************************************************************************)
(* Model of the posting scheduler, src/scheduler/main.py: main_loop and    *)
(* schedule_for_account, with the inventory, variant and publish services  *)
(* as nondeterministic collaborators.                                      *)
(*                                                                         *)
(* Time is an integer number of minutes since midnight of day 0.           *)
(* Strings whose characters matter (the post times) are sequences of       *)
(* one-character strings; None is the value NONE.                          *)
(***************************************************************************)
EXTENDS Integers, Sequences, FiniteSets, TLC

----------------------------------------------------------------------------
(* Bounds of the model *)

\* Passes of main_loop's while True that the model follows.
MaxPass == 1
\* Length of the account list a discovery returns.
MaxAccounts == 2
\* Minutes that may pass between two consecutive readings of the clock.
MaxGap == 1
\* JITTER_MINUTES is read from the environment (default 15); the model runs
\* with a small setting.
JITTER_MINUTES == 1

----------------------------------------------------------------------------
(* Program constants *)

POSTS_PER_DAY == 3
\* time.sleep(600), in minutes
PASS_SLEEP == 10
\* timedelta(days=1), in minutes
DAY == 1440

NONE == "<None>"

----------------------------------------------------------------------------
(* Post-time strings and their parsing (lines 69-73) *)

Digits == <<"0", "1", "2", "3", "4", "5", "6", "7", "8", "9">>

IsDigit(c) == \E d \in 1..10 : Digits[d] = c

DigitVal(c) == (CHOOSE d \in 1..10 : Digits[d] = c) - 1

\* str.split(sep): the fields between the separators, at least one field.
RECURSIVE split(_, _)
split(s, sep) ==
    IF \A i \in 1..Len(s) : s[i] # sep
    THEN <<s>>
    ELSE LET p == CHOOSE i \in 1..Len(s) :
                      s[i] = sep /\ \A j \in 1..(i - 1) : s[j] # sep
         IN  <<SubSeq(s, 1, p - 1)>> \o split(SubSeq(s, p + 1, Len(s)), sep)

\* The digits of an int() literal after an optional sign.
Unsigned(f) == IF Len(f) > 0 /\ f[1] \in {"+", "-"} THEN Tail(f) ELSE f

\* int(f) succeeds: an optional sign followed by at least one digit.
IsIntLiteral(f) ==
    /\ Len(Unsigned(f)) > 0
    /\ \A i \in 1..Len(Unsigned(f)) : IsDigit(Unsigned(f)[i])

RECURSIVE DigitsValue(_)
DigitsValue(ds) ==
    IF Len(ds) = 0 THEN 0
    ELSE 10 * DigitsValue(SubSeq(ds, 1, Len(ds) - 1)) + DigitVal(ds[Len(ds)])

\* int(f) where it succeeds.
int(f) ==
    IF Len(f) > 0 /\ f[1] = "-" THEN 0 - DigitsValue(Unsigned(f))
    ELSE DigitsValue(Unsigned(f))

\* hour, minute = map(int, tstr.split(":")) inside the try block: ok is FALSE
\* where the statement raises (a field that is no integer, or not two fields).
ParseTime(tstr) ==
    LET fields == split(tstr, ":")
    IN  IF Len(fields) = 2 /\ IsIntLiteral(fields[1]) /\ IsIntLiteral(fields[2])
        THEN [ok |-> TRUE, hour |-> int(fields[1]), minute |-> int(fields[2])]
        ELSE [ok |-> FALSE, hour |-> 0, minute |-> 0]

\* datetime.replace(hour=, minute=, second=0, microsecond=0) raises ValueError
\* outside these ranges.
ReplaceRaises(hour, minute) == ~(hour \in 0..23 /\ minute \in 0..59)

\* datetime.now().replace(hour=hour, minute=minute, second=0, microsecond=0)
\* for a reading t of the clock.
Replace(t, hour, minute) == (t \div DAY) * DAY + hour * 60 + minute

\* Variant of BaseFire that compares with <=.
BaseFireLeq(t1, t2, hour, minute) ==
    IF Replace(t1, hour, minute) <= t2
    THEN Replace(t1, hour, minute) + DAY
    ELSE Replace(t1, hour, minute)

\* Lines 75-78: the scheduled time from the reading t1 that is replaced and
\* the later reading t2 it is compared with.
BaseFire(t1, t2, hour, minute) ==
    IF Replace(t1, hour, minute) < t2
    THEN Replace(t1, hour, minute) + DAY
    ELSE Replace(t1, hour, minute)

\* Variant of JitterRange that is not symmetric
\* (random.randint(0, 2 * JITTER_MINUTES)).
JitterRangeOneSided == 0..(2 * JITTER_MINUTES)

\* random.randint(-JITTER_MINUTES, JITTER_MINUTES)
JitterRange == (0 - JITTER_MINUTES)..JITTER_MINUTES

----------------------------------------------------------------------------
(* Records served by the collaborators *)

T0800 == <<"0", "8", ":", "0", "0">>
T1200 == <<"1", "2", ":", "0", "0">>
T1800 == <<"1", "8", ":", "0", "0">>
T2200 == <<"2", "2", ":", "0", "0">>
T2500 == <<"2", "5", ":", "0", "0">>
T1260 == <<"1", "2", ":", "6", "0">>
Tabcd == <<"a", "b", ":", "c", "d">>
T080000 == <<"0", "8", ":", "0", "0", ":", "0", "0">>

Sched(ts) == [post_times |-> ts]

\* What GET /schedules/{id} may return; <<>> is also what fetch_json returns
\* when the request fails.
SchedLists ==
    { <<>>,
      <<Sched(<<>>)>>,
      <<Sched(<<T0800>>)>>,
      <<Sched(<<T0800, T1200>>), Sched(<<T1800, T2200>>)>>,
      <<Sched(<<T1800>>), Sched(<<T0800>>)>>,
      <<Sched(<<T2500, T0800>>)>>,
      <<Sched(<<T1260>>), Sched(<<T1800>>)>>,
      <<Sched(<<Tabcd, T0800>>)>>,
      <<Sched(<<T080000>>), Sched(<<T1800>>)>> }

Account(id, network, token) ==
    [id |-> id, network |-> network, external_user_id |-> id + 100,
     access_token |-> token]

\* The accounts stored by the inventory, in stored order.
AccountPool ==
    << Account(1, "instagram", "tok1"),
       Account(2, "tiktok", "tok2"),
       Account(3, "youtube", "tok3"),
       Account(4, "mastodon", "tok4"),
       Account(5, "instagram", NONE),
       Account(6, "tiktok", "") >>

\* What GET /accounts may return: up to MaxAccounts stored accounts in stored
\* order; <<>> also when the request fails.
AccountLists ==
    { [i \in 1..Cardinality(S) |->
          AccountPool[CHOOSE p \in S : Cardinality({q \in S : q < p}) = i - 1]] :
      S \in {T \in SUBSET (1..Len(AccountPool)) : Cardinality(T) <= MaxAccounts} }

LibLists == { <<>>, <<"lib1">>, <<"lib1", "lib2">> }

Item(id, master_url, title) == [id |-> id, master_url |-> master_url, title |-> title]

NoItem == Item(0, NONE, NONE)

\* What GET /libraries/{id}/items may return.
ItemLists ==
    { <<>>,
      <<Item(1, "master1", "Title1"), Item(2, "master2", NONE)>> }

Caption(platform, body) == [item_id |-> 0, platform |-> platform, body |-> body]

\* The caption sets an item may have in the store.
CaptionLists ==
    { <<>>,
      <<Caption("instagram", "capIG"), Caption("tiktok", "capTT")>>,
      <<Caption("youtube", "capYT"), Caption("mastodon", "capM")>> }

\* list_captions (GET /captions/{item_id}): the stored captions of one item.
list_captions(item_id) ==
    { [i \in 1..Len(l) |-> [l[i] EXCEPT !.item_id = item_id]] : l \in CaptionLists }

\* Outcomes of POST /variant: a failure (transport error, timeout, non-2xx
\* status), or the JSON body of create_variant, which always carries a cdn_url
\* of a fresh file.
VariantResults == { "error", "cdn1" }

\* Outcomes of POST /publish.
PublishResults == { "2xx", "non2xx", "error" }

----------------------------------------------------------------------------
(* State *)

VARIABLES
    pc,              \* position in main_loop / schedule_for_account
    pass,            \* iteration of main_loop's while True
    now,             \* the clock
    accounts,        \* main_loop: accounts
    idx,             \* main_loop: position of the for loop in accounts
    done,            \* how the cycles of this pass ended
    schedules,       \* schedule_for_account: schedules
    times_strs,      \* schedule_for_account: times_strs
    items,           \* schedule_for_account: items
    k,               \* position of the for loop in times_strs
    read_now,        \* the datetime.now() of line 75, until line 83
    jitter,          \* schedule_for_account: jitter
    scheduled_time,  \* schedule_for_account: scheduled_time
    item,            \* schedule_for_account: item
    captions,        \* schedule_for_account: captions
    caption,         \* schedule_for_account: caption
    variant_url,     \* schedule_for_account: variant_url
    log,             \* requests and waits of the current cycle
    request,         \* the publish request in flight
    pr,              \* how requests.post of line 131 ended, until it is logged
    revoked          \* id of an account deleted or revoked while it waited, or 0

vars == <<pc, pass, now, accounts, idx, done, schedules, times_strs, items, k,
          read_now, jitter, scheduled_time, item, captions, caption,
          variant_url, log, request, pr, revoked>>

main_vars == <<pass, accounts>>

cycle_vars == <<schedules, times_strs, items, k, read_now, jitter,
                scheduled_time, item, captions, caption, variant_url>>

\* The locals of schedule_for_account that only lines 75-86 assign.
fire_vars == <<read_now, jitter, scheduled_time>>

\* The account the for loop of main_loop is at.
acc == accounts[idx]

StartNows == { 8 * 60 }

NoRequest == [adapter |-> NONE, payload |-> NONE]

Init ==
    /\ pc = "fetch_accounts"
    /\ pass = 1
    /\ now \in StartNows
    /\ accounts = <<>>
    /\ idx = 0
    /\ done = <<>>
    /\ schedules = <<>>
    /\ times_strs = <<>>
    /\ items = <<>>
    /\ k = 0
    /\ read_now = 0
    /\ jitter = 0
    /\ scheduled_time = 0
    /\ item = NoItem
    /\ captions = <<>>
    /\ caption = ""
    /\ variant_url = NONE
    /\ log = <<>>
    /\ request = NoRequest
    /\ pr = NONE
    /\ revoked = 0

----------------------------------------------------------------------------
(* Helpers of the scheduler *)

\* Python truthiness of a string or None.
Truthy(v) == v \notin {NONE, ""}

\* fetch_json: the decoded response, or [] when the request fails.
fetch_json(responses) == responses \cup {<<>>}

\* Lines 52-54: the post_times of all schedules, flattened in order.
RECURSIVE Flatten(_)
Flatten(scheds) ==
    IF scheds = <<>> THEN <<>>
    ELSE Head(scheds).post_times \o Flatten(Tail(scheds))

\* Variant of EffectiveTimes without the truncation of line 55.
EffectiveTimesAll(scheds) == Flatten(scheds)

\* Variant of EffectiveTimes that keeps the last POSTS_PER_DAY entries
\* (times_strs[-POSTS_PER_DAY:]).
EffectiveTimesLast(scheds) ==
    SubSeq(Flatten(scheds),
           IF Len(Flatten(scheds)) < POSTS_PER_DAY THEN 1
           ELSE Len(Flatten(scheds)) - POSTS_PER_DAY + 1,
           Len(Flatten(scheds)))

\* Line 55: times_strs[:POSTS_PER_DAY]
EffectiveTimes(scheds) ==
    SubSeq(Flatten(scheds), 1,
           IF Len(Flatten(scheds)) < POSTS_PER_DAY THEN Len(Flatten(scheds))
           ELSE POSTS_PER_DAY)

\* Variant of pick_random_caption that does not filter by platform.
pick_random_caption_any(caps, platform) ==
    IF caps = <<>> THEN {NONE}
    ELSE {caps[i].body : i \in 1..Len(caps)}

\* pick_random_caption: the values it may return.
pick_random_caption(caps, platform) ==
    LET filtered == SelectSeq(caps, LAMBDA c : c.platform = platform)
    IN  IF filtered = <<>> THEN {NONE}
        ELSE {filtered[i].body : i \in 1..Len(filtered)}

\* x or y
Or(x, y) == IF Truthy(x) THEN x ELSE y

\* Variant of MissingToken that tests only for None (acc_token is None).
MissingTokenNoneOnly(account) == account.access_token = NONE

\* Line 43: not acc_token
MissingToken(account) == ~Truthy(account.access_token)

\* Variant of Payload whose tiktok and youtube titles have no fallback to the
\* item title.
PayloadNoFallback(account, url, cap, it) ==
    CASE account.network = "instagram" ->
           [adapter |-> "IG_PUBLISH_BASE",
            payload |-> [ig_user_id |-> account.external_user_id,
                         video_url |-> url,
                         caption |-> cap,
                         access_token |-> account.access_token]]
      [] account.network = "tiktok" ->
           [adapter |-> "TT_PUBLISH_BASE",
            payload |-> [user_access_token |-> account.access_token,
                         video_url |-> url,
                         title |-> cap]]
      [] account.network = "youtube" ->
           [adapter |-> "YT_PUBLISH_BASE",
            payload |-> [oauth_access_token |-> account.access_token,
                         file_url |-> url,
                         title |-> cap,
                         description |-> cap,
                         privacy |-> "public"]]
      [] OTHER -> [adapter |-> NONE, payload |-> NONE]

\* Variant of Payload whose else branch sends the instagram payload instead of
\* rejecting the network.
PayloadDefaultsToInstagram(account, url, cap, it) ==
    CASE account.network = "tiktok" ->
           [adapter |-> "TT_PUBLISH_BASE",
            payload |-> [user_access_token |-> account.access_token,
                         video_url |-> url,
                         title |-> Or(cap, it.title)]]
      [] account.network = "youtube" ->
           [adapter |-> "YT_PUBLISH_BASE",
            payload |-> [oauth_access_token |-> account.access_token,
                         file_url |-> url,
                         title |-> Or(cap, it.title),
                         description |-> Or(cap, it.title),
                         privacy |-> "public"]]
      [] OTHER ->
           [adapter |-> "IG_PUBLISH_BASE",
            payload |-> [ig_user_id |-> account.external_user_id,
                         video_url |-> url,
                         caption |-> cap,
                         access_token |-> account.access_token]]

\* Lines 103-129: the adapter and payload for the account's network; adapter
\* NONE is the else branch (unsupported network).
Payload(account, url, cap, it) ==
    CASE account.network = "instagram" ->
           [adapter |-> "IG_PUBLISH_BASE",
            payload |-> [ig_user_id |-> account.external_user_id,
                         video_url |-> url,
                         caption |-> cap,
                         access_token |-> account.access_token]]
      [] account.network = "tiktok" ->
           [adapter |-> "TT_PUBLISH_BASE",
            payload |-> [user_access_token |-> account.access_token,
                         video_url |-> url,
                         title |-> Or(cap, it.title)]]
      [] account.network = "youtube" ->
           [adapter |-> "YT_PUBLISH_BASE",
            payload |-> [oauth_access_token |-> account.access_token,
                         file_url |-> url,
                         title |-> Or(cap, it.title),
                         description |-> Or(cap, it.title),
                         privacy |-> "public"]]
      [] OTHER -> [adapter |-> NONE, payload |-> NONE]

\* Line 150: the exceptions the except clause of main_loop catches.
Exceptions == {"ValueError", "KeyError", "TypeError"}

\* Variant of main_loop_catches with a narrower except clause (except KeyError).
main_loop_catches_KeyError(e) == e = "KeyError"

main_loop_catches(e) == e \in Exceptions

\* A request or a wait of the account in process, and how it came out.
Event(kind, res) == [kind |-> kind, acc |-> acc.id, slot |-> k, res |-> res]

----------------------------------------------------------------------------
(* main_loop *)

\* The iteration variables of the for loop over times_strs. Each iteration
\* assigns them before it reads them, so the model drops their values when an
\* iteration ends.
slot_vars == <<read_now, jitter, scheduled_time, item, captions, caption,
              variant_url>>

\* The values of the iteration variables are dropped.
DropSlotLocals ==
    /\ read_now' = 0
    /\ jitter' = 0
    /\ scheduled_time' = 0
    /\ item' = NoItem
    /\ captions' = <<>>
    /\ caption' = ""
    /\ variant_url' = NONE

\* The for loop over times_strs goes to its next iteration (a continue, or the
\* end of the loop body).
NextSlot ==
    /\ pc' = "slot"
    /\ k' = k + 1
    /\ DropSlotLocals

\* How schedule_for_account ends: back in the for loop of main_loop.
EndCycle(how) ==
    /\ pc' = "for_acc"
    /\ idx' = idx + 1
    /\ done' = Append(done, [id |-> acc.id, how |-> how])
    /\ schedules' = <<>>
    /\ times_strs' = <<>>
    /\ items' = <<>>
    /\ k' = 0
    /\ read_now' = 0
    /\ jitter' = 0
    /\ scheduled_time' = 0
    /\ item' = NoItem
    /\ captions' = <<>>
    /\ caption' = ""
    /\ variant_url' = NONE

\* An exception e leaves schedule_for_account: lines 148-151.
Raise(e) ==
    IF main_loop_catches(e)
    THEN EndCycle("raised")
    ELSE /\ pc' = "crashed"
         /\ UNCHANGED <<idx, done>>
         /\ UNCHANGED cycle_vars

\* Lines 141-145.
FetchAccounts ==
    /\ pc = "fetch_accounts"
    /\ pass <= MaxPass
    /\ \E accs \in fetch_json(AccountLists) :
         IF accs = <<>>
         THEN /\ now' = now + PASS_SLEEP
              /\ pass' = pass + 1
              /\ accounts' = <<>>
              /\ idx' = 0
              /\ pc' = "fetch_accounts"
         ELSE /\ accounts' = accs
              /\ idx' = 1
              /\ pc' = "for_acc"
              /\ UNCHANGED <<now, pass>>
    /\ done' = <<>>
    /\ log' = <<>>
    /\ UNCHANGED cycle_vars
    /\ UNCHANGED request
    /\ UNCHANGED <<pr, revoked>>

\* Lines 152-154: the pass is over.
PassSleep ==
    /\ pc = "for_acc"
    /\ idx > Len(accounts)
    /\ now' = now + PASS_SLEEP
    /\ pass' = pass + 1
    /\ pc' = "fetch_accounts"
    /\ UNCHANGED <<accounts, idx, done, log, request>>
    /\ UNCHANGED cycle_vars
    /\ UNCHANGED <<pr, revoked>>

----------------------------------------------------------------------------
(* schedule_for_account *)

\* Lines 147-149 and 40-45: the call, and the access-token check.
StartAccount ==
    /\ pc = "for_acc"
    /\ idx <= Len(accounts)
    /\ log' = <<>>
    /\ IF MissingToken(acc)
       THEN EndCycle("returned")
       ELSE /\ pc' = "schedules"
            /\ UNCHANGED <<idx, done>>
            /\ UNCHANGED cycle_vars
    /\ UNCHANGED <<main_vars, now, request>>
    /\ UNCHANGED <<pr, revoked>>

\* Variant of FetchSchedules without the return of lines 48-50.
FetchSchedulesNoReturn ==
    /\ pc = "schedules"
    /\ \E scheds \in fetch_json(SchedLists) :
         /\ log' = Append(log, Event("schedules",
                                     IF scheds = <<>> THEN "empty" ELSE "ok"))
         /\ schedules' = scheds
         /\ times_strs' = EffectiveTimes(scheds)
         /\ pc' = "libraries"
         /\ UNCHANGED <<idx, done, items, k, item, captions, caption,
                        variant_url>>
         /\ UNCHANGED fire_vars
    /\ UNCHANGED <<main_vars, now, request>>
    /\ UNCHANGED <<pr, revoked>>

\* Lines 47-55.
FetchSchedules ==
    /\ pc = "schedules"
    /\ \E scheds \in fetch_json(SchedLists) :
         IF scheds = <<>>
         THEN /\ log' = Append(log, Event("schedules", "empty"))
              /\ EndCycle("returned")
         ELSE /\ log' = Append(log, Event("schedules", "ok"))
              /\ schedules' = scheds
              /\ times_strs' = EffectiveTimes(scheds)
              /\ pc' = "libraries"
              /\ UNCHANGED <<idx, done, items, k, item, captions, caption,
                             variant_url>>
              /\ UNCHANGED fire_vars
    /\ UNCHANGED <<main_vars, now, request>>
    /\ UNCHANGED <<pr, revoked>>

\* Lines 57-62.
FetchLibraries ==
    /\ pc = "libraries"
    /\ \E libs \in fetch_json(LibLists) :
         IF libs = <<>>
         THEN /\ log' = Append(log, Event("libraries", "empty"))
              /\ EndCycle("returned")
         ELSE /\ log' = Append(log, Event("libraries", "ok"))
              /\ pc' = "items"
              /\ UNCHANGED <<idx, done>>
              /\ UNCHANGED cycle_vars
    /\ UNCHANGED <<main_vars, now, request>>
    /\ UNCHANGED <<pr, revoked>>

\* Lines 63-66.
FetchItems ==
    /\ pc = "items"
    /\ \E its \in fetch_json(ItemLists) :
         IF its = <<>>
         THEN /\ log' = Append(log, Event("items", "empty"))
              /\ EndCycle("returned")
         ELSE /\ log' = Append(log, Event("items", "ok"))
              /\ items' = its
              /\ k' = 1
              /\ pc' = "slot"
              /\ UNCHANGED <<idx, done, schedules, times_strs, item, captions,
                             caption, variant_url>>
              /\ UNCHANGED fire_vars
    /\ UNCHANGED <<main_vars, now, request>>
    /\ UNCHANGED <<pr, revoked>>

\* Line 67 at the end of times_strs: schedule_for_account returns.
EndSlots ==
    /\ pc = "slot"
    /\ k > Len(times_strs)
    /\ EndCycle("returned")
    /\ UNCHANGED <<main_vars, now, log, request>>
    /\ UNCHANGED <<pr, revoked>>

\* Lines 67-81: the next post time is parsed and its scheduled time computed.
\* The clock is read at line 75 (read_now) and again at line 77.
BeginSlot ==
    /\ pc = "slot"
    /\ k <= Len(times_strs)
    /\ LET t == ParseTime(times_strs[k])
       IN  IF ~t.ok
           THEN \* lines 71-73: continue
                /\ k' = k + 1
                /\ UNCHANGED <<pc, idx, done, now, schedules, times_strs,
                               items, item, captions, caption, variant_url>>
                /\ UNCHANGED fire_vars
           ELSE IF ReplaceRaises(t.hour, t.minute)
           THEN \* line 75 raises ValueError outside the try block
                /\ Raise("ValueError")
                /\ UNCHANGED now
           ELSE \E g \in 0..MaxGap, j \in JitterRange :
                /\ read_now' = now
                /\ jitter' = j
                /\ scheduled_time' = BaseFire(now, now + g, t.hour, t.minute) + j
                /\ now' = now + g
                /\ pc' = "sleep"
                /\ UNCHANGED <<idx, done, schedules, times_strs, items, k,
                               item, captions, caption, variant_url>>
    /\ UNCHANGED <<main_vars, log, request>>
    /\ UNCHANGED <<pr, revoked>>

\* Lines 83-86: time.sleep begins when the scheduled time is ahead.
Sleep ==
    /\ pc = "sleep"
    /\ IF scheduled_time - now > 0
       THEN /\ pc' = "sleeping"
            /\ log' = Append(log, Event("wait", ""))
       ELSE /\ pc' = "captions"
            /\ UNCHANGED log
    /\ read_now' = 0
    /\ UNCHANGED <<main_vars, now, idx, done, request, schedules, times_strs,
                   items, k, jitter, scheduled_time, item, captions, caption,
                   variant_url>>
    /\ UNCHANGED <<pr, revoked>>

\* Variant of Wake in which the sleep ends a minute early.
WakeEarly ==
    /\ pc = "sleeping"
    /\ now' = scheduled_time - 1
    /\ pc' = "captions"
    /\ UNCHANGED <<main_vars, idx, done, log, request>>
    /\ UNCHANGED cycle_vars
    /\ UNCHANGED <<pr, revoked>>

\* Line 86: time.sleep returns.
Wake ==
    /\ pc = "sleeping"
    /\ now' = scheduled_time
    /\ pc' = "captions"
    /\ UNCHANGED <<main_vars, idx, done, log, request>>
    /\ UNCHANGED cycle_vars
    /\ UNCHANGED <<pr, revoked>>

\* Lines 88-92.
SelectContent ==
    /\ pc = "captions"
    /\ log' = Append(log, Event("captions", ""))
    /\ \E it \in {items[i] : i \in 1..Len(items)} :
         \E caps \in fetch_json(list_captions(it.id)) :
           /\ item' = it
           /\ captions' = caps
           /\ \E c \in pick_random_caption(caps, acc.network) :
                caption' = IF c = NONE THEN "" ELSE c
    /\ pc' = "variant"
    /\ UNCHANGED <<main_vars, now, idx, done, request, schedules, times_strs,
                   items, k, variant_url>>
    /\ UNCHANGED fire_vars
    /\ UNCHANGED <<pr, revoked>>

\* Variant of VariantRequest that ignores the answer and keeps the master file
\* of the item as the media to publish.
VariantRequestKeepsMaster ==
    /\ pc = "variant"
    /\ \E res \in VariantResults :
         IF res = "error"
         THEN /\ log' = Append(log, Event("variant", "error"))
              /\ NextSlot
         ELSE /\ log' = Append(log, Event("variant", "ok"))
              /\ variant_url' = item.master_url
              /\ pc' = "publish"
              /\ UNCHANGED <<k, item, captions, caption>>
              /\ UNCHANGED fire_vars
    /\ UNCHANGED <<main_vars, now, idx, done, request, schedules, times_strs,
                   items>>
    /\ UNCHANGED <<pr, revoked>>

\* Variant of VariantRequest that, when the request fails, goes on to publish
\* the master file instead of continuing with the next slot.
VariantRequestFallsBack ==
    /\ pc = "variant"
    /\ \E res \in VariantResults :
         IF res = "error"
         THEN /\ log' = Append(log, Event("variant", "error"))
              /\ variant_url' = item.master_url
              /\ pc' = "publish"
              /\ UNCHANGED k
         ELSE /\ log' = Append(log, Event("variant", "ok"))
              /\ variant_url' = res
              /\ pc' = "publish"
              /\ UNCHANGED k
    /\ UNCHANGED <<main_vars, now, idx, done, request, schedules, times_strs,
                   items, item, captions, caption>>
    /\ UNCHANGED fire_vars
    /\ UNCHANGED <<pr, revoked>>

\* Lines 94-101.
VariantRequest ==
    /\ pc = "variant"
    /\ \E res \in VariantResults :
         IF res = "error"
         THEN \* lines 99-101: continue
              /\ log' = Append(log, Event("variant", "error"))
              /\ NextSlot
         ELSE /\ log' = Append(log, Event("variant", "ok"))
              /\ variant_url' = res
              /\ pc' = "publish"
              /\ UNCHANGED <<k, item, captions, caption>>
              /\ UNCHANGED fire_vars
    /\ UNCHANGED <<main_vars, now, idx, done, request, schedules, times_strs,
                   items>>
    /\ UNCHANGED <<pr, revoked>>

\* Variant of Publish that does not wait for the answer of the publish request
\* and goes to the next slot with the request in flight.
PublishDetached ==
    /\ pc = "publish"
    /\ LET p == Payload(acc, variant_url, caption, item)
       IN  IF p.adapter = NONE
           THEN /\ NextSlot
                /\ UNCHANGED <<log, request>>
           ELSE /\ log' = Append(log, Event("publish", ""))
                /\ request' = [adapter |-> p.adapter, payload |-> p.payload]
                /\ NextSlot
    /\ UNCHANGED <<main_vars, now, idx, done, schedules, times_strs, items>>
    /\ UNCHANGED <<pr, revoked>>

\* Lines 102-131: the payload is built and the request sent; an unsupported
\* network continues with the next slot (lines 127-129).
Publish ==
    /\ pc = "publish"
    /\ LET p == Payload(acc, variant_url, caption, item)
       IN  IF p.adapter = NONE
           THEN /\ NextSlot
                /\ UNCHANGED <<log, request>>
           ELSE /\ log' = Append(log, Event("publish", ""))
                /\ request' = [adapter |-> p.adapter, payload |-> p.payload]
                /\ pc' = "publishing"
                /\ UNCHANGED k
                /\ UNCHANGED slot_vars
    /\ UNCHANGED <<main_vars, now, idx, done, schedules, times_strs, items>>
    /\ UNCHANGED <<pr, revoked>>

\* Variant of PublishReturns in which a transport error or timeout of
\* requests.post is not caught and leaves schedule_for_account.
PublishReturnsRaises ==
    /\ pc = "publishing"
    /\ \E res \in PublishResults :
         /\ request' = NoRequest
         /\ IF res = "error"
            THEN /\ EndCycle("raised")
                 /\ UNCHANGED pr
            ELSE /\ pr' = res
                 /\ pc' = "published"
                 /\ UNCHANGED <<idx, done, k>>
                 /\ DropSlotLocals
                 /\ UNCHANGED <<schedules, times_strs, items>>
    /\ UNCHANGED <<main_vars, now, log, revoked>>

\* Line 131: requests.post returns a response of any status, or raises. What
\* is left of the iteration (lines 132-135) reads none of the iteration
\* variables.
PublishReturns ==
    /\ pc = "publishing"
    /\ \E res \in PublishResults :
         /\ request' = NoRequest
         /\ pr' = res
    /\ pc' = "published"
    /\ DropSlotLocals
    /\ UNCHANGED <<main_vars, now, idx, done, log, schedules, times_strs,
                   items, k, revoked>>

\* Variant of PublishLogged that tries the slot again after a failed publish.
PublishLoggedRetries ==
    /\ pc = "published"
    /\ pr' = NONE
    /\ IF pr = "2xx"
       THEN NextSlot
       ELSE /\ pc' = "captions"
            /\ UNCHANGED k
            /\ DropSlotLocals
    /\ UNCHANGED <<main_vars, now, idx, done, log, request, schedules,
                   times_strs, items, revoked>>

\* Lines 132-135: the status or the exception is logged, and the loop body
\* ends.
PublishLogged ==
    /\ pc = "published"
    /\ pr' = NONE
    /\ NextSlot
    /\ UNCHANGED <<main_vars, now, idx, done, log, request, schedules,
                   times_strs, items, revoked>>

Next ==
    \/ FetchAccounts
    \/ PassSleep
    \/ StartAccount
    \/ FetchSchedules
    \/ FetchLibraries
    \/ FetchItems
    \/ EndSlots
    \/ BeginSlot
    \/ Sleep
    \/ Wake
    \/ SelectContent
    \/ VariantRequest
    \/ Publish
    \/ PublishReturns
    \/ PublishLogged

Spec == Init /\ [][Next]_vars

----------------------------------------------------------------------------
(* The engine with its environment: the inventory's account store is a file
   the API loads (accounts.json), and the platforms own the credentials; either
   may change while schedule_for_account holds its copy of the account. *)

\* The account in process is deleted from the store, or its credentials are
\* revoked, during the time.sleep of line 86. The scheduler has no code that
\* looks at the store again before the next discovery.
Revoke ==
    /\ pc = "sleeping"
    /\ revoked = 0
    /\ revoked' = acc.id
    /\ UNCHANGED <<pc, pass, now, accounts, idx, done, log, request, pr>>
    /\ UNCHANGED cycle_vars

NextEnv ==
    \/ Next
    \/ Revoke

SpecEnv == Init /\ [][NextEnv]_vars

----------------------------------------------------------------------------
(* The scheduled-time computation on its own: schedule_for_account at line 67
   with one post time, at any minute of two days. *)

\* "%02d:%02d" % (h, m)
TimeStr(h, m) ==
    <<Digits[(h \div 10) + 1], Digits[(h % 10) + 1], ":",
      Digits[(m \div 10) + 1], Digits[(m % 10) + 1]>>

CalcTimes == {TimeStr(h, m) : h \in {0, 8, 12, 23}, m \in {0, 30, 59}}

CalcNows == 0..(DAY + DAY - 1)

InitCalc ==
    /\ pc = "slot"
    /\ pass = 1
    /\ now \in CalcNows
    /\ accounts = <<AccountPool[1]>>
    /\ idx = 1
    /\ done = <<>>
    /\ \E tstr \in CalcTimes :
         /\ schedules = <<Sched(<<tstr>>)>>
         /\ times_strs = <<tstr>>
    /\ items = <<Item(1, "master1", "Title1"), Item(2, "master2", NONE)>>
    /\ k = 1
    /\ read_now = 0
    /\ jitter = 0
    /\ scheduled_time = 0
    /\ item = NoItem
    /\ captions = <<>>
    /\ caption = ""
    /\ variant_url = NONE
    /\ log = <<[kind |-> "schedules", acc |-> 1, slot |-> 0, res |-> "ok"],
               [kind |-> "libraries", acc |-> 1, slot |-> 0, res |-> "ok"],
               [kind |-> "items", acc |-> 1, slot |-> 0, res |-> "ok"]>>
    /\ request = NoRequest
    /\ pr = NONE
    /\ revoked = 0

NextCalc ==
    \/ BeginSlot
    \/ Sleep
    \/ Wake

SpecCalc == InitCalc /\ [][NextCalc]_vars

----------------------------------------------------------------------------
(* Properties *)

\* The positions inside schedule_for_account.
CyclePcs == {"schedules", "libraries", "items", "slot", "sleep", "sleeping",
             "captions", "variant", "publish", "publishing", "published"}

\* The positions inside the for loop over times_strs.
SlotPcs == CyclePcs \ {"schedules", "libraries", "items"}

\* The access token is missing or empty.
TokenMissingOrEmpty(a) == a.access_token = NONE \/ a.access_token = ""

\* A valid 24-hour HH:MM.
ValidHHMM(tstr) ==
    /\ ParseTime(tstr).ok
    /\ ParseTime(tstr).hour \in 0..23
    /\ ParseTime(tstr).minute \in 0..59

\* Minutes since midnight of a valid HH:MM.
TimeOfDay(tstr) == ParseTime(tstr).hour * 60 + ParseTime(tstr).minute

\* C1: for an account whose access token is missing or empty the cycle ends by
\* returning with no request at all: no event of the log belongs to such an
\* account, and control is never inside schedule_for_account past the token
\* check for it.
NoCallsWithoutToken ==
    /\ \A i \in 1..Len(log) : \A j \in 1..Len(accounts) :
         accounts[j].id = log[i].acc => ~TokenMissingOrEmpty(accounts[j])
    /\ pc \in CyclePcs => ~TokenMissingOrEmpty(acc)
    /\ \A j \in 1..Len(done) :
         TokenMissingOrEmpty(accounts[j]) => done[j].how = "returned"

\* A token-less account has just been passed over.
TokenlessAccountSkipped ==
    /\ pc = "for_acc"
    /\ Len(done) >= 1
    /\ TokenMissingOrEmpty(accounts[Len(done)])
    /\ log = <<>>

\* The steps of schedule_for_account for the account at position i.
AccountStep(i) ==
    /\ idx = i
    /\ \/ StartAccount
       \/ FetchSchedules
       \/ FetchLibraries
       \/ FetchItems
       \/ EndSlots
       \/ BeginSlot
       \/ Sleep
       \/ Wake
       \/ SelectContent
       \/ VariantRequest
       \/ Publish
       \/ PublishReturns
       \/ PublishLogged

\* C2: accounts never block each other: while one account is suspended in its
\* wait, every other account of the set that has a token and has not had its
\* cycle yet can take its next step.
AccountsNeverBlock ==
    \A i \in 1..Len(accounts) : \A j \in 1..Len(accounts) :
        ( /\ i # j
          /\ idx = i
          /\ pc = "sleeping"
          /\ j > Len(done)
          /\ ~TokenMissingOrEmpty(accounts[j]) )
        => ENABLED AccountStep(j)

\* C3: an error raised by one account's processing does not stop main_loop:
\* the loop is never left, every cycle that ended is on record in the order of
\* the accounts, the loop stands at the account after the last one that ended,
\* and the pass ends only when every account of the set has had its cycle.
FailureIsolation ==
    /\ pc # "crashed"
    /\ \A j \in 1..Len(done) : j <= Len(accounts) /\ done[j].id = accounts[j].id
    /\ pc = "for_acc" => Len(done) = idx - 1
    /\ (pc = "fetch_accounts" /\ accounts # <<>>) => Len(done) = Len(accounts)

\* The first account raised, the second one published, and the next pass has
\* begun.
RaisedThenOthersProcessed ==
    /\ pc = "fetch_accounts"
    /\ pass = 2
    /\ Len(done) = 2
    /\ done[1].how = "raised"
    /\ \E i \in 1..Len(log) : log[i].kind = "publish" /\ log[i].acc = done[2].id

\* C4: a post time that is no valid HH:MM is skipped alone: the loop moves to
\* the next slot of the same account with no wait and no request.
InvalidSlotOnlySkipped ==
    [][ (pc = "slot" /\ k <= Len(times_strs) /\ ~ValidHHMM(times_strs[k]))
        => (pc' = "slot" /\ k' = k + 1 /\ idx' = idx /\ log' = log) ]_vars

\* C5: after a failed variant request no publish request is sent for that
\* slot, and the failure moves the loop to the next slot of the same account.
VariantFailureSkipsSlot ==
    /\ [](\A i \in 1..Len(log) :
            (log[i].kind = "variant" /\ log[i].res = "error")
            => \A j \in 1..Len(log) :
                 ~(log[j].kind = "publish" /\ log[j].slot = log[i].slot))
    /\ [][ ( /\ Len(log') = Len(log) + 1
             /\ log'[Len(log')].kind = "variant"
             /\ log'[Len(log')].res = "error" )
           => ( /\ pc' = "slot"
                /\ k' = k + 1
                /\ idx' = idx
                /\ done' = done
                /\ times_strs' = times_strs ) ]_vars

\* A variant request failed and a later slot of the same cycle got its own
\* variant request.
LaterSlotAfterVariantFailure ==
    \E i \in 1..Len(log) : \E j \in 1..Len(log) :
        /\ i < j
        /\ log[i].kind = "variant" /\ log[i].res = "error"
        /\ log[j].kind = "variant" /\ log[j].slot > log[i].slot

\* Number of post times in the schedules before schedule s.
RECURSIVE TimesBefore(_)
TimesBefore(s) ==
    IF s = 1 THEN 0 ELSE TimesBefore(s - 1) + Len(schedules[s - 1].post_times)

\* C6: the effective slot list is the concatenation of the post_times of the
\* schedules in listed order, cut to its first POSTS_PER_DAY entries, and no
\* wait or request is made for an entry beyond it.
EffectiveListIsTruncatedConcat ==
    /\ pc \in CyclePcs \ {"schedules"} =>
         /\ Len(times_strs) =
              IF TimesBefore(Len(schedules) + 1) < POSTS_PER_DAY
              THEN TimesBefore(Len(schedules) + 1) ELSE POSTS_PER_DAY
         /\ \A s \in 1..Len(schedules) :
              \A p \in 1..Len(schedules[s].post_times) :
                TimesBefore(s) + p <= POSTS_PER_DAY
                => times_strs[TimesBefore(s) + p] = schedules[s].post_times[p]
    /\ pc \in SlotPcs =>
         \A i \in 1..Len(log) : log[i].slot <= Len(times_strs)
    /\ \A i \in 1..Len(log) : log[i].slot <= POSTS_PER_DAY

\* The schedules list more than POSTS_PER_DAY times, the last kept one was
\* published, and the loop is at its end.
TruncatedListProcessed ==
    /\ pc = "slot"
    /\ TimesBefore(Len(schedules) + 1) > POSTS_PER_DAY
    /\ k = POSTS_PER_DAY + 1
    /\ \E i \in 1..Len(log) :
         log[i].kind = "publish" /\ log[i].slot = POSTS_PER_DAY

\* C7: within one cycle the slots are processed in ascending post-time order:
\* of two slots that got as far as content selection, the one processed first
\* has the earlier (or the same) HH:MM.
SlotsInAscendingOrder ==
    pc \in SlotPcs =>
      \A i \in 1..Len(log) : \A j \in 1..Len(log) :
        (i < j /\ log[i].kind = "captions" /\ log[j].kind = "captions")
        => TimeOfDay(times_strs[log[i].slot]) <= TimeOfDay(times_strs[log[j].slot])

\* The scheduled time before jitter.
base_time == scheduled_time - jitter

\* C8 as stated: the fire instant before jitter is today at HH:MM when that
\* is strictly later than now, and tomorrow at HH:MM otherwise, equality
\* included (where the clock did not move between the two readings).
FireInstantTomorrowAtEquality ==
    (pc = "sleep" /\ read_now = now) =>
      base_time =
        IF Replace(now, ParseTime(times_strs[k]).hour,
                   ParseTime(times_strs[k]).minute) > now
        THEN Replace(now, ParseTime(times_strs[k]).hour,
                     ParseTime(times_strs[k]).minute)
        ELSE Replace(now, ParseTime(times_strs[k]).hour,
                     ParseTime(times_strs[k]).minute) + DAY

\* C8 amended: the fire instant before jitter has time of day HH:MM, is not
\* earlier than the clock reading it was built from, lies on that reading's
\* day or the next, and the instant one day before it is strictly earlier
\* than the clock at the comparison: it is today at HH:MM when that is at or
\* after now (equality included), and tomorrow at HH:MM otherwise.
FireInstantTodayAtEquality ==
    pc = "sleep" =>
      /\ base_time % DAY = TimeOfDay(times_strs[k])
      /\ base_time >= read_now
      /\ base_time - DAY < now
      /\ (base_time \div DAY) - (read_now \div DAY) \in {0, 1}

\* The post time equals the clock: the fire instant before jitter is now.
FireAtEquality ==
    /\ pc = "sleep"
    /\ read_now = now
    /\ now % DAY = TimeOfDay(times_strs[k])
    /\ base_time = now

\* C9: the jitter is a whole number of minutes in -JITTER_MINUTES ..
\* JITTER_MINUTES, so the jittered fire instant is not earlier than now minus
\* JITTER_MINUTES and not later than now plus one day plus JITTER_MINUTES.
JitterBounds ==
    pc = "sleep" =>
      /\ jitter \in Int
      /\ 0 - JITTER_MINUTES <= jitter
      /\ jitter <= JITTER_MINUTES
      /\ scheduled_time = base_time + jitter
      /\ scheduled_time >= read_now - JITTER_MINUTES
      /\ scheduled_time <= now + DAY + JITTER_MINUTES

\* The earliest jittered instant: the post time equals the clock and the
\* jitter is -JITTER_MINUTES.
EarliestJitteredInstant ==
    /\ pc = "sleep"
    /\ jitter = 0 - JITTER_MINUTES
    /\ scheduled_time = read_now - JITTER_MINUTES

\* C10: the publish request in flight goes to the adapter of the account's
\* network with the fields of that network: instagram {external user id,
\* variant URL, caption as it is, access token}; tiktok {access token, variant
\* URL, title}; youtube {access token, variant URL, title, description,
\* privacy public}; title and description are the caption when it is not
\* empty and the item title when it is.
PayloadMatchesTable ==
    pc = "publishing" =>
      /\ acc.network \in {"instagram", "tiktok", "youtube"}
      /\ acc.network = "instagram" =>
           /\ request.adapter = "IG_PUBLISH_BASE"
           /\ DOMAIN request.payload =
                {"ig_user_id", "video_url", "caption", "access_token"}
           /\ request.payload.ig_user_id = acc.external_user_id
           /\ request.payload.video_url = variant_url
           /\ request.payload.caption = caption
           /\ request.payload.access_token = acc.access_token
      /\ acc.network = "tiktok" =>
           /\ request.adapter = "TT_PUBLISH_BASE"
           /\ DOMAIN request.payload =
                {"user_access_token", "video_url", "title"}
           /\ request.payload.user_access_token = acc.access_token
           /\ request.payload.video_url = variant_url
           /\ caption # "" => request.payload.title = caption
           /\ caption = "" => request.payload.title = item.title
      /\ acc.network = "youtube" =>
           /\ request.adapter = "YT_PUBLISH_BASE"
           /\ DOMAIN request.payload =
                {"oauth_access_token", "file_url", "title", "description",
                 "privacy"}
           /\ request.payload.oauth_access_token = acc.access_token
           /\ request.payload.file_url = variant_url
           /\ request.payload.privacy = "public"
           /\ caption # "" => /\ request.payload.title = caption
                              /\ request.payload.description = caption
           /\ caption = "" => /\ request.payload.title = item.title
                              /\ request.payload.description = item.title

\* A youtube request whose caption is empty carries the item title.
YoutubeTitleFallback ==
    /\ pc = "publishing"
    /\ acc.network = "youtube"
    /\ caption = ""
    /\ item.title = "Title1"
    /\ request.payload.title = "Title1"


\* The networks that have a publish adapter.
SupportedNetworks == {"instagram", "tiktok", "youtube"}

\* C11: for an account whose network is none of instagram, tiktok, youtube no
\* publish request is ever sent, and the rejection at the publish step only
\* moves the loop to the next slot of the same account: nothing is raised, the
\* cycle is not ended and main_loop stays at the account.
UnsupportedNetworkNeverPublishes ==
    /\ [](/\ \A i \in 1..Len(log) : \A j \in 1..Len(accounts) :
               (log[i].kind = "publish" /\ accounts[j].id = log[i].acc)
               => accounts[j].network \in SupportedNetworks
          /\ pc = "publishing" => acc.network \in SupportedNetworks
          /\ (pc \in CyclePcs /\ acc.network \notin SupportedNetworks)
               => request = NoRequest)
    /\ [][ (pc = "publish" /\ acc.network \notin SupportedNetworks)
           => ( /\ pc' = "slot"
                /\ k' = k + 1
                /\ idx' = idx
                /\ done' = done
                /\ log' = log
                /\ request' = NoRequest ) ]_vars

\* An account of an unsupported network got a variant for its first slot, sent
\* no publish request, and its loop stands at the second slot.
UnsupportedAccountWentOn ==
    /\ pc = "slot"
    /\ k = 2
    /\ acc.network \notin SupportedNetworks
    /\ \E i \in 1..Len(log) :
          log[i].kind = "variant" /\ log[i].slot = 1 /\ log[i].res = "ok"
    /\ \A i \in 1..Len(log) : log[i].kind # "publish"


\* C12: a publish request that fails (a non-2xx status, a transport error or a
\* timeout) is not fatal: the return of the request raises nothing, and once
\* it is logged the loop goes to the next slot of the same account without
\* ending the cycle or the pass and without a second request for the slot.
PublishFailureNotFatal ==
    /\ [][ pc = "publishing"
           => ( /\ pc' = "published"
                /\ pr' \in PublishResults
                /\ idx' = idx /\ done' = done /\ k' = k /\ pass' = pass ) ]_vars
    /\ [][ (pc = "published" /\ pr \in {"non2xx", "error"})
           => ( /\ pc' = "slot"
                /\ k' = k + 1
                /\ idx' = idx /\ done' = done /\ pass' = pass
                /\ times_strs' = times_strs
                /\ log' = log
                /\ request' = NoRequest ) ]_vars

\* A publish request failed with a transport error while a later slot of the
\* account is still to come.
PublishFailedBeforeLaterSlot ==
    /\ pc = "published"
    /\ pr = "error"
    /\ k < Len(times_strs)
    /\ log[Len(log)].kind = "publish" /\ log[Len(log)].slot = k


\* C13: once the account in process was deleted or had its credentials revoked
\* while its loop waited, the loop is cancelled: no variant request and no
\* publish request is dispatched for it afterwards.
RevokedAccountNeverDispatched ==
    [][ (revoked # 0 /\ pc \in CyclePcs /\ acc.id = revoked)
        => /\ Len(log') > Len(log)
                => log'[Len(log')].kind \notin {"variant", "publish"}
           /\ request' = NoRequest ]_vars


\* The three inventory fetches of a cycle.
FetchKinds == {"schedules", "libraries", "items"}

\* C14: a cycle that finds no schedules, no libraries or no items ends at once
\* as an ordinary return: the empty fetch is the last thing the cycle did, so
\* it has no wait, no variant request and no publish request; and nothing
\* about the account is remembered, so that every discovered account with a
\* token is examined from the schedules fetch on.
IneligibleCycleEndsAtOnce ==
    /\ [](\A i \in 1..Len(log) :
            (log[i].kind \in FetchKinds /\ log[i].res = "empty")
            => /\ i = Len(log)
               /\ \A j \in 1..Len(log) : log[j].kind \in FetchKinds
               /\ pc \notin CyclePcs
               /\ request = NoRequest
               /\ Len(done) > 0
               /\ done[Len(done)] = [id |-> log[i].acc, how |-> "returned"])
    /\ [][ (pc = "for_acc" /\ idx <= Len(accounts)
            /\ ~TokenMissingOrEmpty(acc))
           => (pc' = "schedules" /\ idx' = idx /\ log' = <<>>) ]_vars

\* A cycle ended because the library had no items, after its schedules and
\* libraries were found, and the next account is in process.
CycleEndedWithoutItems ==
    /\ Len(log) = 3
    /\ log[3].kind = "items" /\ log[3].res = "empty"
    /\ log[1].res = "ok" /\ log[2].res = "ok"
    /\ pc = "for_acc"
    /\ idx = 2 /\ Len(accounts) = 2


\* The bodies of the fetched captions written for a network.
BodiesFor(network) ==
    {captions[i].body : i \in {j \in 1..Len(captions) :
                                  captions[j].platform = network}}

\* C15: from the selection on, the caption of the slot is the body of one of
\* the selected item's captions whose platform is the account's network, or
\* the empty string when there is none (also when the captions fetch failed);
\* the instagram request carries exactly it; and the slot goes on to the
\* variant request whatever the caption is.
CaptionMatchesNetworkOrEmpty ==
    /\ []((pc \in {"variant", "publish", "publishing"})
          => /\ \A i \in 1..Len(captions) : captions[i].item_id = item.id
             /\ IF BodiesFor(acc.network) = {}
                THEN caption = ""
                ELSE caption \in BodiesFor(acc.network)
             /\ (pc = "publishing" /\ acc.network = "instagram")
                  => request.payload.caption = caption)
    /\ [][ pc = "captions"
           => (pc' = "variant" /\ k' = k /\ idx' = idx /\ done' = done) ]_vars

\* A publish request of an instagram account whose item only has captions of
\* other platforms: the caption is empty and the slot was not skipped.
OnlyOtherPlatformCaptions ==
    /\ pc = "publishing"
    /\ acc.network = "instagram"
    /\ Len(captions) > 0
    /\ BodiesFor("instagram") = {}
    /\ request.payload.caption = ""


\* C16: the slots of one account run strictly one after the other: what the
\* cycle did is ordered by slot, nothing of slot k has happened and no request
\* is in flight when the loop stands at slot k, the scheduled time of a slot is
\* computed only there, and the loop leaves a slot only from a position where
\* the slot is resolved (skipped, variant failed, network rejected, publish
\* logged), never from a wait or a request in flight.
SlotsStrictlySequential ==
    /\ [](pc \in SlotPcs
          => /\ \A i \in 1..Len(log) : log[i].slot <= k
             /\ \A i, j \in 1..Len(log) : i < j => log[i].slot <= log[j].slot
             /\ pc = "slot" => /\ \A i \in 1..Len(log) : log[i].slot < k
                               /\ request = NoRequest
                               /\ pr = NONE)
    /\ [][ (pc \in SlotPcs /\ pc' \in SlotPcs /\ k' # k)
           => ( /\ k' = k + 1
                /\ pc \in {"slot", "variant", "publish", "published"}
                /\ pc' = "slot"
                /\ request = NoRequest /\ request' = NoRequest ) ]_vars
    /\ [][ (pc \in SlotPcs /\ scheduled_time' # scheduled_time
            /\ scheduled_time' # 0)
           => (pc = "slot" /\ k' = k /\ request = NoRequest) ]_vars

\* The second slot of an account waits for its fire instant after the first
\* slot was published and its request answered.
SecondSlotWaitsAfterFirstPublished ==
    /\ pc = "sleeping"
    /\ k = 2
    /\ request = NoRequest
    /\ \E i \in 1..Len(log) : log[i].kind = "publish" /\ log[i].slot = 1
    /\ log[Len(log)].kind = "wait" /\ log[Len(log)].slot = 2


\* The media URL a publish request carries.
MediaUrl(req) ==
    IF req.adapter = "YT_PUBLISH_BASE" THEN req.payload.file_url
    ELSE req.payload.video_url

\* The URLs the variant service answers with.
VariantUrls == {"cdn1"}

\* C17: every publish request comes after a successful variant request of the
\* same slot, and the media URL it carries is the URL that request returned:
\* a URL of the variant service, never the master_url of the item and never
\* absent.
PublishCarriesVariantUrl ==
    /\ [](\A i \in 1..Len(log) :
            log[i].kind = "publish"
            => \E j \in 1..(i - 1) : /\ log[j].kind = "variant"
                                     /\ log[j].slot = log[i].slot
                                     /\ log[j].acc = log[i].acc
                                     /\ log[j].res = "ok")
    /\ [](pc = "publishing"
          => /\ MediaUrl(request) = variant_url
             /\ MediaUrl(request) \in VariantUrls
             /\ MediaUrl(request) # item.master_url
             /\ MediaUrl(request) # NONE)
    /\ [][ (pc = "variant" /\ pc' = "publish")
           => ( /\ variant_url' \in VariantUrls
                /\ log' = Append(log, [kind |-> "variant", acc |-> acc.id,
                                       slot |-> k, res |-> "ok"]) ) ]_vars

\* A tiktok publish request in flight with the URL of the variant service,
\* right after the variant request of its slot.
TiktokPublishOfVariant ==
    /\ pc = "publishing"
    /\ acc.network = "tiktok"
    /\ request.payload.video_url = "cdn1"
    /\ Len(log) >= 2
    /\ log[Len(log) - 1].kind = "variant" /\ log[Len(log) - 1].res = "ok"
    /\ log[Len(log) - 1].slot = k


\* The positions of a slot after its wait.
AfterWaitPcs == {"captions", "variant", "publish", "publishing"}

\* C18: nothing is published early: from the content selection to the publish
\* request in flight the clock is at or after the scheduled time of the
\* slot (jitter included), so the variant and publish requests are issued no
\* earlier; and a slot whose scheduled time is not ahead of the clock goes on
\* without a wait.
NeverPublishedEarly ==
    /\ [](pc \in AfterWaitPcs => now >= scheduled_time)
    /\ [][ (Len(log') > Len(log)
            /\ log'[Len(log')].kind \in {"variant", "publish"})
           => (now >= scheduled_time /\ now' = now
               /\ scheduled_time' \in {scheduled_time, 0}) ]_vars
    /\ [][ (pc = "sleep" /\ scheduled_time <= now)
           => (pc' = "captions" /\ log' = log /\ now' = now) ]_vars
    /\ [][ (pc = "sleep" /\ scheduled_time > now)
           => (pc' = "sleeping" /\ now' = now) ]_vars

\* The variant request of a slot that did not wait: its scheduled time, pulled
\* back by the jitter, was already past.
PastInstantNotWaitedFor ==
    /\ pc = "publish"
    /\ scheduled_time < now
    /\ \A i \in 1..Len(log) : log[i].slot = k => log[i].kind # "wait"
    /\ log[Len(log)].kind = "variant" /\ log[Len(log)].slot = k


\* The positions of the log with an event of a kind.
EventsOf(kind) == {i \in 1..Len(log) : log[i].kind = kind}

\* C19: within a cycle every slot causes at most one variant request and at
\* most one publish request, so a cycle sends at most POSTS_PER_DAY of either;
\* and an account has at most one cycle in a pass, so this also bounds the
\* publish requests of an account in a pass.
AtMostOnePublishPerSlot ==
    /\ \A kind \in {"variant", "publish"} :
         /\ \A i, j \in EventsOf(kind) : i # j => log[i].slot # log[j].slot
         /\ Cardinality(EventsOf(kind)) <= POSTS_PER_DAY
    /\ \A i \in 1..Len(log) : log[i].acc = log[1].acc
    /\ \A i, j \in 1..Len(done) : i # j => done[i].id # done[j].id
    /\ pc \in CyclePcs => \A i \in 1..Len(done) : done[i].id # acc.id

\* A cycle with four post times in its schedules has sent its POSTS_PER_DAY
\* publish requests and ended.
AllowedPublishesSent ==
    /\ Cardinality(EventsOf("publish")) = POSTS_PER_DAY
    /\ Len(Flatten(schedules)) > POSTS_PER_DAY
    /\ pc = "slot"
    /\ k > Len(times_strs)


\* How far the for loop of one iteration has come: the steps left in it.
StepsLeftInSlot ==
    CASE pc = "slot" -> 7
      [] pc = "sleep" -> 6
      [] pc = "sleeping" -> 5
      [] pc = "captions" -> 4
      [] pc = "variant" -> 3
      [] pc = "publish" -> 2
      [] pc = "publishing" -> 1
      [] OTHER -> 0

\* More than the steps a cycle can take: eight per slot, and the fetches.
CycleSpan == 8 * (POSTS_PER_DAY + 2)

\* The steps left in the cycle in process.
StepsLeftInCycle ==
    CASE pc = "schedules" -> CycleSpan - 1
      [] pc = "libraries" -> CycleSpan - 2
      [] pc = "items" -> CycleSpan - 3
      [] OTHER -> 1 + 8 * (Len(times_strs) + 1 - k) + StepsLeftInSlot

\* A bound on the steps left in the pass; every step of a pass lowers it.
StepsLeftInPass ==
    CASE pc = "fetch_accounts" -> (Len(AccountPool) + 1) * CycleSpan
      [] pc = "for_acc" -> (Len(accounts) + 1 - idx) * CycleSpan + 1
      [] pc \in CyclePcs -> (Len(accounts) - idx) * CycleSpan + 1
                            + StepsLeftInCycle
      [] OTHER -> 0

\* The loop is not stuck: the step of its position can be taken. (Discovery is
\* followed for MaxPass passes only. At a time string of the list the for loop
\* has an iteration to run, whose lines 69-81 parse, continue, raise or go on.)
CanStep ==
    CASE pc = "fetch_accounts" -> (pass <= MaxPass => ENABLED FetchAccounts)
      [] pc = "for_acc" -> ENABLED StartAccount \/ ENABLED PassSleep
      [] pc = "schedules" -> ENABLED FetchSchedules
      [] pc = "libraries" -> ENABLED FetchLibraries
      [] pc = "items" -> ENABLED FetchItems
      [] pc = "slot" -> k \in 1..Len(times_strs) \/ ENABLED EndSlots
      [] pc = "sleep" -> ENABLED Sleep
      [] pc = "sleeping" -> ENABLED Wake
      [] pc = "captions" -> ENABLED SelectContent
      [] pc = "variant" -> ENABLED VariantRequest
      [] pc = "publish" -> ENABLED Publish
      [] pc = "publishing" -> ENABLED PublishReturns
      [] pc = "published" -> ENABLED PublishLogged
      [] OTHER -> FALSE

\* C20: every discovery pass terminates and makes progress. Each step inside
\* a pass lowers a non-negative bound on the steps left, and inside a pass a
\* step is always possible (every call returns or times out, every sleep
\* returns), so a pass ends after finitely many steps; a wait is for more than
\* nothing and for at most a day plus the jitter; and a pass ends only by the
\* sleep of the fixed interval, either after every account of the set had its
\* cycle, in the order of the set, or at once when the set is empty, with
\* discovery next.
EveryPassTerminates ==
    /\ [](StepsLeftInPass >= 0)
    /\ [][ pass' = pass => StepsLeftInPass' < StepsLeftInPass ]_vars
    /\ [](pc # "crashed")
    /\ [](CanStep)
    /\ [](pc = "sleeping" => /\ scheduled_time - now > 0
                             /\ scheduled_time - now <= DAY + JITTER_MINUTES)
    /\ [][ pass' # pass
           => ( /\ pass' = pass + 1
                /\ now' = now + PASS_SLEEP
                /\ pc' = "fetch_accounts"
                /\ \/ pc = "fetch_accounts" /\ accounts' = <<>>
                   \/ /\ pc = "for_acc"
                      /\ Len(done) = Len(accounts)
                      /\ \A i \in 1..Len(accounts) :
                            done[i].id = accounts[i].id ) ]_vars

\* A pass over two accounts has ended, the first of them after a wait of its
\* slot, and the loop is back at discovery after the sleep of the interval.
PassOverTwoAccountsEnded ==
    /\ pc = "fetch_accounts"
    /\ pass = 2
    /\ Len(accounts) = 2
    /\ Len(done) = 2
    /\ now >= DAY

====
